---- MODULE Spec2Model ----
(***************************************************************************)
(* A model of core/freemail_client.py: FreemailClient, the client of the   *)
(* Freemail temporary-mailbox service.  One client instance, one thread of *)
(* control.  Every public method is an action; poll_for_code is split into *)
(* the steps of its loop.  Python values are tagged records so that the    *)
(* truthiness tests of the code (`if email:`, `x or y`) are modelled as    *)
(* Python evaluates them.                                                  *)
(***************************************************************************)
EXTENDS Integers, Sequences, FiniteSets, TLC

VARIABLES
    cfg,     \* the configuration set by __init__ (never assigned afterwards)
    email,   \* self.email, the stored mailbox address
    pc,      \* "idle", or the position inside poll_for_code's loop
    call,    \* the operation in progress or last finished, with its arguments
    resp,    \* the reply the transport gave to the last request of that operation
    ret,     \* how the operation ended: returned value or raised exception
    log,     \* the calls made to the logging sink during the operation
    trace,   \* requests, sleeps and extractor calls of the operation, in order
    poll     \* poll_for_code's locals: max_retries, i, code

vars == <<cfg, email, pc, call, resp, ret, log, trace, poll>>

----------------------------------------------------------------------------
(* Bounds of the model *)

MaxTimeout == 3     \* poll_for_code's timeout ranges over 0..MaxTimeout
MaxInterval == 2    \* poll_for_code's interval ranges over 0..MaxInterval
MaxTime == 2        \* message instants range over 0..MaxTime (epoch seconds)
MaxMsgs == 2        \* a list-messages reply carries at most MaxMsgs messages
TzOffset == 1       \* the local zone's offset from UTC, in the same unit

----------------------------------------------------------------------------
(* Python values *)

None == [t |-> "none", v |-> <<>>]
Str(s) == [t |-> "str", v |-> s]            \* a string: a sequence of tokens
Num(n) == [t |-> "num", v |-> n]
Bool(b) == [t |-> "bool", v |-> b]
Dict(f) == [t |-> "dict", v |-> f]          \* f: a function from key to value
List(s) == [t |-> "list", v |-> s]
DateTime(w) == [t |-> "datetime", v |-> w]  \* a naive datetime, w its wall clock

EmptyStr == Str(<<>>)
EmptyDict == [t |-> "dict", v |-> [k \in {} |-> None]]
EmptyList == List(<<>>)

\* Python's truth value of an object (bool(x))
Truthy(x) ==
    CASE x.t = "none" -> FALSE
      [] x.t = "str" -> x.v # <<>>
      [] x.t = "num" -> x.v # 0
      [] x.t = "bool" -> x.v
      [] x.t = "dict" -> DOMAIN x.v # {}
      [] x.t = "list" -> x.v # <<>>
      [] OTHER -> TRUE

\* a or b
PyOr(a, b) == IF Truthy(a) THEN a ELSE b

\* d.get(key) of a dict d
DictGet(d, key) == IF key \in DOMAIN d.v THEN d.v[key] ELSE None

\* whether x has a method get (only dict among the JSON types)
HasGet(x) == x.t = "dict"

----------------------------------------------------------------------------
(* The configuration and the logging sink *)

BaseUrl == <<"http://freemail">>
Token == Str(<<"tok">>)
DefaultTimeout == 15

\* log_callback: absent, a sink that returns, a sink that raises on any call
Sinks == {"none", "ok", "raises"}

Config(sink) ==
    [base_url |-> BaseUrl, jwt_token |-> Token, proxies |-> None,
     verify_ssl |-> TRUE, log_callback |-> sink]

Entry(level, msg, arg) == [level |-> level, msg |-> msg, arg |-> arg]

\* self._log(level, message): the call reaches the sink when one is set; an
\* exception of the sink is swallowed.  The result is what is added to log.
Log(c, level, msg, arg) ==
    IF c.log_callback # "none" THEN <<Entry(level, msg, arg)>> ELSE <<>>

----------------------------------------------------------------------------
(* The transport: requests.request either raises or returns a response *)

Statuses == {200, 201, 401, 403, 500}

TransportError == [kind |-> "error", status |-> 0, body |-> [raw |-> "none", json |-> None]]
NoResp == [kind |-> "norequest", status |-> 0, body |-> [raw |-> "none", json |-> None]]
Http(status, body) == [kind |-> "http", status |-> status, body |-> body]

EmptyBody == [raw |-> "empty", json |-> None]      \* res.content is empty
BadBody == [raw |-> "text", json |-> None]         \* res.json() raises
JsonBody(x) == [raw |-> "json", json |-> x]        \* res.json() returns x

Url(c, path) == c.base_url \o <<path>>

RequestEv(c, method, path, params) ==
    [ev |-> "request", method |-> method, url |-> Url(c, path), params |-> params,
     proxies |-> c.proxies, verify |-> c.verify_ssl, timeout |-> DefaultTimeout]

\* a faulty variant: a transport failure is logged and not raised again
Request_Swallows(c, method, path, params, r) ==
    LET before == Log(c, "info", "[HTTP] method url", <<method, path>>)
                  \o Log(c, "info", "[HTTP] Params", <<>>)
        after == IF r.kind = "error"
                 THEN Log(c, "error", "[HTTP] Request failed", <<"ConnectionError">>)
                 ELSE Log(c, "info", "[HTTP] Response", <<ToString(r.status)>>)
                      \o (IF r.status >= 400
                          THEN Log(c, "error", "[HTTP] Error body", <<>>)
                          ELSE <<>>)
    IN [log |-> before \o after,
        trace |-> <<RequestEv(c, method, path, params)>>,
        raised |-> FALSE,
        res |-> r]

\* _request(method, url, params=params) when the transport answers r:
\* the log entries, the request issued, and whether the call raises.
Request(c, method, path, params, r) ==
    LET before == Log(c, "info", "[HTTP] method url", <<method, path>>)
                  \o Log(c, "info", "[HTTP] Params", <<>>)
        after == IF r.kind = "error"
                 THEN Log(c, "error", "[HTTP] Request failed", <<"ConnectionError">>)
                 ELSE Log(c, "info", "[HTTP] Response", <<ToString(r.status)>>)
                      \o (IF r.status >= 400
                          THEN Log(c, "error", "[HTTP] Error body", <<>>)
                          ELSE <<>>)
    IN [log |-> before \o after,
        trace |-> <<RequestEv(c, method, path, params)>>,
        raised |-> r.kind = "error",
        res |-> r]

----------------------------------------------------------------------------
(* How an operation ends *)

Return(x) == [kind |-> "return", val |-> x, exc |-> "none"]
Raise(e) == [kind |-> "raise", val |-> None, exc |-> e]

\* res.json() if res.content else dflt: the value, or the exception raised
JsonOr(r, dflt) ==
    CASE r.body.raw = "empty" -> Return(dflt)
      [] r.body.raw = "text" -> Raise("JSONDecodeError")
      [] OTHER -> Return(r.body.json)

----------------------------------------------------------------------------
(* register_account *)

\* params of the generate request
RegisterParams(c, domain) ==
    IF Truthy(domain)
    THEN [admin_token |-> c.jwt_token, domain |-> domain]
    ELSE [admin_token |-> c.jwt_token]

\* a faulty variant: the field mailbox is read first
AddressOf_MailboxFirst(data) == PyOr(DictGet(data, "mailbox"), DictGet(data, "email"))

\* a faulty variant: only the field email is read
AddressOf_EmailOnly(data) == DictGet(data, "email")

\* data.get("email") or data.get("mailbox")
AddressOf(data) == PyOr(DictGet(data, "email"), DictGet(data, "mailbox"))

\* the body of the try block after the request returned res
RegisterOnResponse(c, e, res) ==
    IF res.status \in {200, 201}
    THEN LET data == JsonOr(res, EmptyDict) IN
         IF data.kind = "raise" THEN [email |-> e, log |-> <<>>, ret |-> data]
         ELSE IF ~HasGet(data.val)
         THEN [email |-> e, log |-> <<>>, ret |-> Raise("AttributeError")]
         ELSE LET a == AddressOf(data.val) IN
              IF Truthy(a)
              THEN [email |-> a,
                    log |-> Log(c, "info", "Freemail mailbox created", <<>>),
                    ret |-> Return(Bool(TRUE))]
              ELSE [email |-> e,
                    log |-> Log(c, "error", "Freemail response missing email field", <<>>),
                    ret |-> Return(Bool(FALSE))]
    ELSE IF res.status \in {401, 403}
    THEN [email |-> e,
          log |-> Log(c, "error", "Freemail authentication failed (invalid JWT token)", <<>>),
          ret |-> Return(Bool(FALSE))]
    ELSE [email |-> e,
          log |-> Log(c, "error", "Freemail generate failed", <<ToString(res.status)>>),
          ret |-> Return(Bool(FALSE))]

\* a faulty variant: the handler is missing and the exception propagates
RegisterCatch_Propagates(c, r) == r

\* except Exception as e: log and return False
RegisterCatch(c, r) ==
    IF r.ret.kind = "raise"
    THEN [r EXCEPT !.log = @ \o Log(c, "error", "Freemail register failed", <<r.ret.exc>>),
                   !.ret = Return(Bool(FALSE))]
    ELSE r

\* register_account(domain) when the transport answers rsp
RegisterAccount(c, e, domain, rsp) ==
    LET first == IF Truthy(domain)
                 THEN Log(c, "info", "Freemail generating mailbox with domain", <<>>)
                 ELSE Log(c, "info", "Freemail generating mailbox (auto-select domain)", <<>>)
        rq == Request(c, "POST", "/api/generate", RegisterParams(c, domain), rsp)
        body == IF rq.raised
                THEN [email |-> e, log |-> <<>>, ret |-> Raise("ConnectionError")]
                ELSE RegisterOnResponse(c, e, rq.res)
        out == RegisterCatch(c, [body EXCEPT !.log = first \o rq.log \o @])
    IN [email |-> out.email, log |-> out.log, ret |-> out.ret, trace |-> rq.trace]

----------------------------------------------------------------------------
(* Timestamps.  An instant is a number of seconds since the epoch; a naive  *)
(* datetime is modelled by its wall clock, the seconds since 1970-01-01     *)
(* 00:00:00 of the local zone, which is TzOffset ahead of UTC.              *)

\* datetime.fromtimestamp(n): the local naive datetime of instant n
FromTimestamp(n) == DateTime(n + TzOffset)

\* the ISO-8601 string of instant n in UTC with the suffix Z, as three tokens:
\* the date and time up to the seconds, the seconds, the zone
IsoZ(n) == Str(<<"1970-01-01T00:00:", ToString(n), "Z">>)

\* s.replace("Z", "+00:00") on the tokens of s
ReplaceZ(s) == [i \in DOMAIN s |-> IF s[i] = "Z" THEN "+00:00" ELSE s[i]]

IsSeconds(tok) == \E n \in 0..MaxTime : ToString(n) = tok
SecondsOf(tok) == CHOOSE n \in 0..MaxTime : ToString(n) = tok

\* datetime.fromisoformat(s): the datetime (aware with offset 0, or naive),
\* or ValueError
FromIsoFormat(s) ==
    IF Len(s) \in {2, 3} /\ s[1] = "1970-01-01T00:00:" /\ IsSeconds(s[2])
       /\ (Len(s) = 3 => s[3] = "+00:00")
    THEN Return([aware |-> Len(s) = 3, secs |-> SecondsOf(s[2])])
    ELSE Raise("ValueError")

\* d.astimezone().replace(tzinfo=None): an aware datetime is converted to the
\* local zone, a naive one is taken to be local already
ToLocalNaive(d) == IF d.aware THEN DateTime(d.secs + TzOffset) ELSE DateTime(d.secs)

\* lines 146-149: the message's time from a truthy created_at, or the exception
EmailTime(created_at) ==
    IF created_at.t = "num" THEN Return(FromTimestamp(created_at.v))
    ELSE IF created_at.t # "str" THEN Raise("AttributeError")
    ELSE LET d == FromIsoFormat(ReplaceZ(created_at.v)) IN
         IF d.kind = "raise" THEN d ELSE Return(ToLocalNaive(d.val))

\* a faulty variant: a message whose created_at cannot be parsed is skipped
Skipped_DropsUnparsed(item, since) ==
    IF ~Truthy(since) THEN FALSE
    ELSE LET created_at == DictGet(item, "created_at") IN
         IF ~Truthy(created_at) THEN FALSE
         ELSE LET t == EmailTime(created_at) IN
              IF t.kind = "raise" THEN TRUE
              ELSE IF since.t # "datetime" THEN FALSE
              ELSE t.val.v < since.v

\* lines 140-154: whether the loop skips the message (a dict) for since_time
Skipped(item, since) ==
    IF ~Truthy(since) THEN FALSE
    ELSE LET created_at == DictGet(item, "created_at") IN
         IF ~Truthy(created_at) THEN FALSE
         ELSE LET t == EmailTime(created_at) IN
              IF t.kind = "raise" THEN FALSE
              ELSE IF since.t # "datetime" THEN FALSE
              ELSE t.val.v < since.v

----------------------------------------------------------------------------
(* The text of a message and the code extractor *)

Space == <<" ">>

\* lines 157-162: subject + " " + content + " " + html_content + " " + preview
FullContent(item) ==
    LET content == PyOr(DictGet(item, "content"), EmptyStr)
        subject == PyOr(DictGet(item, "subject"), EmptyStr)
        html_content == PyOr(DictGet(item, "html_content"), EmptyStr)
        preview == PyOr(DictGet(item, "preview"), EmptyStr)
    IN IF \A x \in {content, subject, html_content, preview} : x.t = "str"
       THEN Return(Str(subject.v \o Space \o content.v \o Space
                       \o html_content.v \o Space \o preview.v))
       ELSE Raise("TypeError")

CodeTok(j) == ToString(111111 * j)
IsCodeTok(tok) == \E j \in 1..9 : tok = CodeTok(j)

\* core.mail_utils.extract_verification_code(text): the first code of the text
ExtractCode(text) ==
    IF \E i \in DOMAIN text : IsCodeTok(text[i])
    THEN LET i == CHOOSE i \in DOMAIN text :
                    IsCodeTok(text[i]) /\ \A h \in 1..(i - 1) : ~IsCodeTok(text[h])
         IN Str(<<text[i]>>)
    ELSE None

----------------------------------------------------------------------------
(* fetch_verification_code *)

ExtractEv(k, text) == [ev |-> "extract", index |-> k, text |-> text]

\* a faulty variant: the loop does not stop at the first code and a later
\* message's code replaces it
RECURSIVE Scan_LastWins(_, _, _)
Scan_LastWins(items, since, k) ==
    IF k > Len(items) THEN [ret |-> Return(None), trace |-> <<>>]
    ELSE LET item == items[k] IN
         IF ~HasGet(item) THEN [ret |-> Raise("AttributeError"), trace |-> <<>>]
         ELSE IF Skipped(item, since) THEN Scan_LastWins(items, since, k + 1)
         ELSE LET text == FullContent(item) IN
              IF text.kind = "raise" THEN [ret |-> text, trace |-> <<>>]
              ELSE LET code == ExtractCode(text.val.v)
                       here == <<ExtractEv(k, text.val)>>
                       rest == Scan_LastWins(items, since, k + 1)
                   IN IF Truthy(code) /\ ~(rest.ret.kind = "return" /\ Truthy(rest.ret.val))
                      THEN [ret |-> Return(code), trace |-> here \o rest.trace]
                      ELSE [rest EXCEPT !.trace = here \o @]

\* lines 138-168: the loop over the messages from position k on
RECURSIVE Scan(_, _, _)
Scan(items, since, k) ==
    IF k > Len(items) THEN [ret |-> Return(None), trace |-> <<>>]
    ELSE LET item == items[k] IN
         IF ~HasGet(item) THEN [ret |-> Raise("AttributeError"), trace |-> <<>>]
         ELSE IF Skipped(item, since) THEN Scan(items, since, k + 1)
         ELSE LET text == FullContent(item) IN
              IF text.kind = "raise" THEN [ret |-> text, trace |-> <<>>]
              ELSE LET code == ExtractCode(text.val.v)
                       here == <<ExtractEv(k, text.val)>>
                   IN IF Truthy(code)
                      THEN [ret |-> Return(code), trace |-> here]
                      ELSE LET rest == Scan(items, since, k + 1)
                           IN [rest EXCEPT !.trace = here \o @]

\* a faulty variant: 403 is not taken for an authentication failure
AuthFailed_Only401(status) == status = 401

\* line 121: res.status_code == 401 or res.status_code == 403
AuthFailed(status) == status = 401 \/ status = 403

\* lines 121-168: the body of the try block after the request returned res
FetchOnResponse(c, since, res) ==
    IF AuthFailed(res.status)
    THEN [ret |-> Return(None), trace |-> <<>>,
          log |-> Log(c, "error", "Freemail authentication failed", <<>>)]
    ELSE IF res.status # 200
    THEN [ret |-> Return(None), trace |-> <<>>,
          log |-> Log(c, "error", "Freemail fetch emails failed", <<ToString(res.status)>>)]
    ELSE LET emails == JsonOr(res, EmptyList) IN
         IF emails.kind = "raise" THEN [ret |-> emails, trace |-> <<>>, log |-> <<>>]
         ELSE IF emails.val.t # "list"
         THEN [ret |-> Return(None), trace |-> <<>>,
               log |-> Log(c, "error", "Freemail response is not a list", <<>>)]
         ELSE IF ~Truthy(emails.val) THEN [ret |-> Return(None), trace |-> <<>>, log |-> <<>>]
         ELSE LET s == Scan(emails.val.v, since, 1) IN
              [ret |-> s.ret, trace |-> s.trace,
               log |-> IF s.ret.kind = "return" /\ Truthy(s.ret.val)
                       THEN Log(c, "info", "Verification code found", s.ret.val.v)
                       ELSE <<>>]

\* a faulty variant: the handler is missing and the exception propagates
FetchCatch_Propagates(c, r) == r

\* except Exception as e: log and return None
FetchCatch(c, r) ==
    IF r.ret.kind = "raise"
    THEN [r EXCEPT !.log = @ \o Log(c, "error", "Fetch verification code failed", <<r.ret.exc>>),
                   !.ret = Return(None)]
    ELSE r

\* a faulty variant: the two parameters are exchanged
FetchParams_Exchanged(c, e) == [mailbox |-> c.jwt_token, admin_token |-> e]

FetchParams(c, e) == [mailbox |-> e, admin_token |-> c.jwt_token]

FetchEv(since) == [ev |-> "fetch", since |-> since]

\* a faulty variant: the test is `self.email is None`
EmailUnset_IsNone(e) == e.t = "none"

\* line 104: if not self.email
EmailUnset(e) == ~Truthy(e)

\* fetch_verification_code(since_time) when the transport answers rsp
FetchVerificationCode(c, e, since, rsp) ==
    IF EmailUnset(e)
    THEN [ret |-> Return(None), trace |-> <<FetchEv(since)>>,
          log |-> Log(c, "error", "Email not set", <<>>)]
    ELSE LET first == Log(c, "info", "Fetching verification code from Freemail", <<>>)
             rq == Request(c, "GET", "/api/emails", FetchParams(c, e), rsp)
             body == IF rq.raised
                     THEN [ret |-> Raise("ConnectionError"), trace |-> <<>>, log |-> <<>>]
                     ELSE FetchOnResponse(c, since, rq.res)
             out == FetchCatch(c, [body EXCEPT !.log = first \o rq.log \o @])
         IN [ret |-> out.ret, log |-> out.log,
             trace |-> <<FetchEv(since)>> \o rq.trace \o out.trace]

----------------------------------------------------------------------------
(* _get_domain *)

\* a faulty variant: a 201 reply is accepted as well
GetDomain_Accepts201(c, rsp) ==
    LET rq == Request(c, "GET", "/api/domains", [admin_token |-> c.jwt_token], rsp)
        domains == JsonOr(rq.res, EmptyList)
        ok == /\ ~rq.raised
              /\ rq.res.status \in {200, 201}
              /\ domains.kind = "return"
              /\ domains.val.t = "list"
              /\ Truthy(domains.val)
    IN [ret |-> IF ok THEN Return(domains.val.v[1]) ELSE Return(EmptyStr),
        log |-> rq.log, trace |-> rq.trace]

\* _get_domain() when the transport answers rsp
GetDomain(c, rsp) ==
    LET rq == Request(c, "GET", "/api/domains", [admin_token |-> c.jwt_token], rsp)
        domains == JsonOr(rq.res, EmptyList)
        ok == /\ ~rq.raised
              /\ rq.res.status = 200
              /\ domains.kind = "return"
              /\ domains.val.t = "list"
              /\ Truthy(domains.val)
    IN [ret |-> IF ok THEN Return(domains.val.v[1]) ELSE Return(EmptyStr),
        log |-> rq.log, trace |-> rq.trace]

----------------------------------------------------------------------------
(* login, set_credentials *)

\* a faulty variant: login forgets the stored mailbox
Login_ClearsMailbox(c, e) ==
    [email |-> None, ret |-> Return(Bool(TRUE)), log |-> <<>>, trace |-> <<>>]

\* login(): return True
Login(c, e) == [email |-> e, ret |-> Return(Bool(TRUE)), log |-> <<>>, trace |-> <<>>]

\* a faulty variant: a password that is given is stored as the address
SetCredentials_PasswordWins(c, e, address, password) ==
    [email |-> IF Truthy(password) THEN password ELSE address,
     ret |-> Return(None), log |-> <<>>, trace |-> <<>>]

\* set_credentials(email, password): self.email = email
SetCredentials(c, e, address, password) ==
    [email |-> address, ret |-> Return(None), log |-> <<>>, trace |-> <<>>]

----------------------------------------------------------------------------
(* poll_for_code's pieces *)

\* line 181: max_retries = timeout // interval, for interval > 0
MaxRetries(timeout, interval) == timeout \div interval

\* line 181 for interval = 0: the division raises
DivisionRaises(timeout, interval) == interval = 0

\* a faulty variant: the loop makes one round too many
InRange_OneMore(i, max_retries) == i <= max_retries + 1

\* line 183: the loop for i in range(1, max_retries + 1) has another round
InRange(i, max_retries) == i <= max_retries

\* a faulty variant: the result of the round is ignored
CodeFound_Never(code) == FALSE

\* line 185: if code
CodeFound(code) == Truthy(code)

\* a faulty variant: the last round sleeps too
SleepsAfter_LastToo(i, max_retries) == i <= max_retries

\* line 188: if i < max_retries
SleepsAfter(i, max_retries) == i < max_retries

SleepEv(secs) == [ev |-> "sleep", secs |-> secs]

\* a faulty variant: the timeout is not logged
TimeoutLog_Missing(c) == <<>>

\* line 191: the timeout entry
TimeoutLog(c) == Log(c, "error", "Verification code timeout", <<>>)

----------------------------------------------------------------------------
(* The inputs: arguments of the calls and replies of the server *)

AddrA == Str(<<"a@x.com">>)
AddrB == Str(<<"b@x.com">>)

Addresses == {EmptyStr, AddrA, AddrB}
Passwords == {None, Str(<<"pw">>)}
Domains == {None, EmptyStr, Str(<<"x.com">>)}

\* the JSON objects of a generate reply: email and mailbox present or not
RegisterObjects ==
    {[k \in D |-> IF k = "email" THEN e ELSE m] :
        D \in SUBSET {"email", "mailbox"}, e \in {None, EmptyStr, AddrA},
        m \in {EmptyStr, AddrB}}

RegisterBodies ==
    {EmptyBody, BadBody, JsonBody(None), JsonBody(EmptyList), JsonBody(Str(<<"ok">>))}
    \cup {JsonBody(Dict(o)) : o \in RegisterObjects}

RegisterResponses ==
    {TransportError}
    \cup {Http(s, b) : s \in {200, 201}, b \in RegisterBodies}
    \cup {Http(s, b) : s \in Statuses \ {200, 201},
                      b \in {EmptyBody, JsonBody(Dict([email |-> AddrA]))}}

\* the values of created_at: epoch numbers, ISO strings, an unparseable string
CreatedAts ==
    {Num(n) : n \in 0..MaxTime} \cup {IsoZ(n) : n \in 0..MaxTime}
    \cup {Str(<<"yesterday">>), EmptyStr}

\* the text fields of the message at position j: without a code, or with the
\* code of that position in the preview
TextFields(j, coded) ==
    IF coded
    THEN [subject |-> Str(<<"Your", "code">>), content |-> EmptyStr,
          html_content |-> None, preview |-> Str(<<"is", CodeTok(j)>>)]
    ELSE [subject |-> Str(<<"hello">>)]

Message(j, coded) == Dict(TextFields(j, coded))
MessageAt(j, coded, created_at) ==
    Dict(TextFields(j, coded) @@ [created_at |-> created_at])

\* the messages at position j: one with a code has any created_at or none; one
\* without a code, whose time only decides whether the extractor sees a text
\* that has no code, has none or the unparseable one
Messages(j) ==
    {Message(j, coded) : coded \in BOOLEAN}
    \cup {MessageAt(j, TRUE, ca) : ca \in CreatedAts}
    \cup {MessageAt(j, FALSE, Str(<<"yesterday">>))}

\* the elements of a list-messages array at position j: a message or a number
Items(j) == Messages(j) \cup {Num(7)}

RECURSIVE Arrays(_)
Arrays(n) ==
    IF n = 0 THEN {<<>>}
    ELSE LET shorter == Arrays(n - 1)
         IN shorter \cup {Append(a, x) : a \in {b \in shorter : Len(b) = n - 1},
                                         x \in Items(n)}

FetchBodies ==
    {EmptyBody, BadBody, JsonBody(None), JsonBody(Dict([email |-> AddrA])),
     JsonBody(Str(<<CodeTok(1)>>))}
    \cup {JsonBody(List(a)) : a \in Arrays(MaxMsgs)}

FetchResponses ==
    {TransportError}
    \cup {Http(200, b) : b \in FetchBodies}
    \cup {Http(s, b) : s \in Statuses \ {200},
                      b \in {EmptyBody, JsonBody(List(<<Message(1, TRUE)>>))}}

\* since_time: absent, or the local naive datetime of instant T
SinceOf(T) == DateTime(T + TzOffset)
Sinces == {None, SinceOf(1), SinceOf(MaxTime)}

\* poll_for_code's arguments and the replies to its requests
PollSinces == {None, SinceOf(MaxTime)}
PollResponses ==
    {TransportError, Http(401, EmptyBody), Http(500, EmptyBody),
     Http(200, JsonBody(None)), Http(200, EmptyBody),
     Http(200, JsonBody(List(<<Message(1, FALSE)>>))),
     Http(200, JsonBody(List(<<MessageAt(1, TRUE, IsoZ(1))>>)))}

DomainResponses ==
    {TransportError}
    \cup {Http(s, JsonBody(List(<<Str(<<"x.com">>)>>))) : s \in Statuses}
    \cup {Http(200, b) : b \in {EmptyBody, BadBody, JsonBody(None), JsonBody(EmptyList),
                               JsonBody(Dict([domains |-> EmptyList])),
                               JsonBody(List(<<Str(<<"x.com">>), Str(<<"y.org">>)>>))}}

----------------------------------------------------------------------------
(* The state machine *)

\* a faulty variant: _log lets the exception of a raising sink through
LogEscapes_Uncaught(c) == c.log_callback = "raises"

\* lines 213-217: the sink is called inside try / except Exception: pass, so
\* no call of _log raises to the method that logs
LogEscapes(c) == FALSE

\* the outcome r of a method, given what its calls of _log did
AfterLog(c, r) ==
    IF LogEscapes(c) /\ r.log # <<>> THEN [r EXCEPT !.ret = Raise("SinkError")] ELSE r

NoCall == [op |-> "none", args |-> <<>>, email0 |-> None]
Call(op, args) == [op |-> op, args |-> args, email0 |-> email]
Running == [kind |-> "running", val |-> None, exc |-> "none"]
NoPoll == [max_retries |-> 0, i |-> 0, code |-> None]

Init ==
    /\ cfg \in {Config(s) : s \in Sinks}
    /\ email = None
    /\ pc = "idle"
    /\ call = NoCall
    /\ resp = NoResp
    /\ ret = Running
    /\ log = <<>>
    /\ trace = <<>>
    /\ poll = NoPoll

\* an operation that runs to its end in one step, with effect r
Complete(op, args, rsp, r) ==
    /\ pc' = "done"
    /\ call' = Call(op, args)
    /\ resp' = rsp
    /\ email' = r.email
    /\ ret' = AfterLog(cfg, r).ret
    /\ log' = r.log
    /\ trace' = r.trace
    /\ UNCHANGED <<cfg, poll>>

RegisterAccountCall ==
    /\ pc = "idle"
    /\ \E domain \in Domains, rsp \in RegisterResponses :
        Complete("register_account", <<domain>>, rsp,
                 RegisterAccount(cfg, email, domain, rsp))

\* the reply to the request of fetch_verification_code, if it sends one
Replies(e, rsps) == IF EmailUnset(e) THEN {NoResp} ELSE rsps

FetchVerificationCodeCall ==
    /\ pc = "idle"
    /\ \E since \in Sinces, rsp \in Replies(email, FetchResponses) :
        LET r == FetchVerificationCode(cfg, email, since, rsp)
        IN Complete("fetch_verification_code", <<since>>, rsp,
                    [email |-> email, ret |-> r.ret, log |-> r.log, trace |-> r.trace])

LoginCall == pc = "idle" /\ Complete("login", <<>>, NoResp, Login(cfg, email))

SetCredentialsCall ==
    /\ pc = "idle"
    /\ \E address \in Addresses, password \in Passwords :
        Complete("set_credentials", <<address, password>>, NoResp,
                 SetCredentials(cfg, email, address, password))

GetDomainCall ==
    /\ pc = "idle"
    /\ \E rsp \in DomainResponses :
        LET r == GetDomain(cfg, rsp)
        IN Complete("_get_domain", <<>>, rsp,
                    [email |-> email, ret |-> r.ret, log |-> r.log, trace |-> r.trace])

\* the response object that _request returns
Response(r) == [t |-> "response", v |-> r.status]

WrapperPaths == {"/api/generate", "/api/emails"}
WrapperResponses == {TransportError} \cup {Http(s, EmptyBody) : s \in Statuses}

\* _request("GET", url, params={"admin_token": ...}) called by itself
RequestCall ==
    /\ pc = "idle"
    /\ \E path \in WrapperPaths, rsp \in WrapperResponses :
        LET rq == Request(cfg, "GET", path, [admin_token |-> cfg.jwt_token], rsp)
        IN Complete("_request", <<"GET", path>>, rsp,
                    [email |-> email,
                     ret |-> IF rq.raised THEN Raise("ConnectionError")
                             ELSE Return(Response(rq.res)),
                     log |-> rq.log, trace |-> rq.trace])

\* poll_for_code(timeout, interval, since_time) up to the head of its loop
PollStart ==
    /\ pc = "idle"
    /\ \E timeout \in 0..MaxTimeout, interval \in 0..MaxInterval, since \in PollSinces :
        /\ call' = Call("poll_for_code", <<timeout, interval, since>>)
        /\ resp' = NoResp
        /\ log' = <<>>
        /\ trace' = <<>>
        /\ IF DivisionRaises(timeout, interval)
           THEN /\ pc' = "done"
                /\ ret' = Raise("ZeroDivisionError")
                /\ poll' = NoPoll
           ELSE /\ pc' = "poll_loop"
                /\ ret' = Running
                /\ poll' = [max_retries |-> MaxRetries(timeout, interval), i |-> 1,
                            code |-> None]
        /\ UNCHANGED <<cfg, email>>

\* line 184: one round's call of fetch_verification_code
PollFetch ==
    /\ pc = "poll_loop"
    /\ InRange(poll.i, poll.max_retries)
    /\ \E rsp \in Replies(email, PollResponses) :
        LET r == AfterLog(cfg, FetchVerificationCode(cfg, email, call.args[3], rsp)) IN
        /\ resp' = rsp
        /\ log' = log \o r.log
        /\ trace' = trace \o r.trace
        /\ IF r.ret.kind = "raise"
           THEN pc' = "done" /\ ret' = r.ret /\ poll' = poll
           ELSE pc' = "poll_fetched" /\ ret' = ret /\ poll' = [poll EXCEPT !.code = r.ret.val]
    /\ UNCHANGED <<cfg, email, call>>

\* lines 185-186: if code: return code
PollReturn ==
    /\ pc = "poll_fetched"
    /\ CodeFound(poll.code)
    /\ pc' = "done"
    /\ ret' = Return(poll.code)
    /\ UNCHANGED <<cfg, email, call, resp, log, trace, poll>>

\* lines 188-189: time.sleep(interval) before the next round
PollSleep ==
    /\ pc = "poll_fetched"
    /\ ~CodeFound(poll.code)
    /\ SleepsAfter(poll.i, poll.max_retries)
    /\ trace' = Append(trace, SleepEv(call.args[2]))
    /\ poll' = [poll EXCEPT !.i = @ + 1]
    /\ pc' = "poll_loop"
    /\ UNCHANGED <<cfg, email, call, resp, ret, log>>

\* line 188 false: the last round ends without a sleep
PollLastRound ==
    /\ pc = "poll_fetched"
    /\ ~CodeFound(poll.code)
    /\ ~SleepsAfter(poll.i, poll.max_retries)
    /\ poll' = [poll EXCEPT !.i = @ + 1]
    /\ pc' = "poll_loop"
    /\ UNCHANGED <<cfg, email, call, resp, ret, log, trace>>

\* lines 191-192: the loop is exhausted
PollTimeout ==
    /\ pc = "poll_loop"
    /\ ~InRange(poll.i, poll.max_retries)
    /\ log' = log \o TimeoutLog(cfg)
    /\ ret' = AfterLog(cfg, [ret |-> Return(None), log |-> TimeoutLog(cfg)]).ret
    /\ pc' = "done"
    /\ UNCHANGED <<cfg, email, call, resp, trace, poll>>

\* the caller takes the result; the client is ready for the next call
Finish ==
    /\ pc = "done"
    /\ pc' = "idle"
    /\ call' = NoCall
    /\ resp' = NoResp
    /\ ret' = Running
    /\ log' = <<>>
    /\ trace' = <<>>
    /\ poll' = NoPoll
    /\ UNCHANGED <<cfg, email>>

Next ==
    \/ RegisterAccountCall
    \/ FetchVerificationCodeCall
    \/ LoginCall
    \/ SetCredentialsCall
    \/ GetDomainCall
    \/ RequestCall
    \/ PollStart
    \/ PollFetch
    \/ PollReturn
    \/ PollSleep
    \/ PollLastRound
    \/ PollTimeout
    \/ Finish

Spec == Init /\ [][Next]_vars

\* the steps of a running poll_for_code
PollStep == PollFetch \/ PollReturn \/ PollSleep \/ PollLastRound \/ PollTimeout

\* a running poll_for_code goes on: the request of a round ends within its
\* timeout (by a reply or an exception) and time.sleep returns
FairSpec == Spec /\ WF_vars(PollStep)

----------------------------------------------------------------------------
(* Vocabulary of the properties *)

Finished(op) == pc = "done" /\ call.op = op

\* the reply is an HTTP response with one of the statuses
Replied(statuses) == resp.kind = "http" /\ resp.status \in statuses

\* the body parses to a JSON object
IsObjectBody(b) == b.raw = "json" /\ b.json.t = "dict"

\* the JSON object o has field f / has it with a value that is not null or ""
HasField(o, f) == f \in DOMAIN o.v
HasValue(o, f) == HasField(o, f) /\ o.v[f] \notin {None, EmptyStr}

Requests == SelectSeq(trace, LAMBDA x : x.ev = "request")
Extracts == SelectSeq(trace, LAMBDA x : x.ev = "extract")
Fetches == SelectSeq(trace, LAMBDA x : x.ev = "fetch")
Sleeps == SelectSeq(trace, LAMBDA x : x.ev = "sleep")

----------------------------------------------------------------------------
(* C1 *)

\* C1 as stated: whenever the 200/201 reply to register_account is a JSON
\* object containing field email or field mailbox, register_account returns
\* True and the stored address is the value of such a field.
C1_AsStated ==
    (/\ Finished("register_account")
     /\ Replied({200, 201})
     /\ IsObjectBody(resp.body)
     /\ \E f \in {"email", "mailbox"} : HasField(resp.body.json, f))
    => /\ ret = Return(Bool(TRUE))
       /\ \E f \in {"email", "mailbox"} :
             HasField(resp.body.json, f) /\ email = resp.body.json.v[f]

\* C1, amended: whenever the 200/201 reply to register_account is a JSON
\* object in which email or mailbox has a value other than null and "",
\* register_account returns True and the stored address is the value of email
\* when that value is not null or "", and the value of mailbox otherwise.
C1_RegisterStoresAddress ==
    (/\ Finished("register_account")
     /\ Replied({200, 201})
     /\ IsObjectBody(resp.body)
     /\ \E f \in {"email", "mailbox"} : HasValue(resp.body.json, f))
    => /\ ret = Return(Bool(TRUE))
       /\ email = IF HasValue(resp.body.json, "email")
                  THEN resp.body.json.v["email"]
                  ELSE resp.body.json.v["mailbox"]

\* register_account has accepted the address of a 201 reply that carries it
\* in field mailbox only
C1_Witness ==
    /\ Finished("register_account")
    /\ resp = Http(201, JsonBody(Dict([mailbox |-> AddrB])))
    /\ ret = Return(Bool(TRUE))
    /\ email = AddrB

----------------------------------------------------------------------------
(* C2 *)

\* the 200/201 body carries neither email nor mailbox: it is empty, is not
\* JSON, is not a JSON object, or is an object without the two fields
HasNeitherField(b) ==
    \/ ~IsObjectBody(b)
    \/ \A f \in {"email", "mailbox"} : ~HasField(b.json, f)

\* C2: register_account never raises, and it returns False when the 200/201
\* body carries neither email nor mailbox, when the status is 401 or 403, when
\* the status is any other one, and when the transport call fails.
C2_RegisterFailsByValue ==
    Finished("register_account")
    => /\ ret.kind = "return"
       /\ (\/ resp.kind = "error"
           \/ Replied(Statuses \ {200, 201})
           \/ Replied({200, 201}) /\ HasNeitherField(resp.body))
          => ret = Return(Bool(FALSE)) /\ email = call.email0

\* register_account has returned False for a 200 reply whose body is a JSON
\* array, after a mailbox had been stored
C2_Witness ==
    /\ Finished("register_account")
    /\ resp = Http(200, JsonBody(EmptyList))
    /\ ret = Return(Bool(FALSE))
    /\ call.email0 = AddrA

----------------------------------------------------------------------------
(* C3 *)

\* C3: a call of fetch_verification_code made while the stored address is
\* None or "", directly or from poll_for_code, returns None, does not raise
\* and sends no request.
C3_FetchWithoutMailbox ==
    (/\ call.op \in {"fetch_verification_code", "poll_for_code"}
     /\ call.email0 \in {None, EmptyStr})
    => /\ Requests = <<>>
       /\ Finished("fetch_verification_code") => ret = Return(None)
       /\ call.op = "poll_for_code" =>
             poll.code = None /\ (ret.kind = "raise" => Fetches = <<>>)

\* fetch_verification_code has returned while the stored address was ""
C3_Witness ==
    /\ Finished("fetch_verification_code")
    /\ call.email0 = EmptyStr
    /\ Len(Fetches) = 1
    /\ ret = Return(None)

----------------------------------------------------------------------------
(* C4 *)

\* the list-messages reply is a 200 whose body is an array of JSON objects
IsMessageArray ==
    /\ Replied({200})
    /\ resp.body.raw = "json"
    /\ resp.body.json.t = "list"
    /\ \A k \in DOMAIN resp.body.json.v : resp.body.json.v[k].t = "dict"

Msgs == resp.body.json.v
Since == call.args[1]

\* the message at position k carries the code of its position in its preview
Coded(k) == HasField(Msgs[k], "preview") /\ Msgs[k].v["preview"] = Str(<<"is", CodeTok(k)>>)
CodeOf(k) == Str(<<CodeTok(k)>>)

\* the positions the extractor was called for
Scanned == {Extracts[i].index : i \in DOMAIN Extracts}

\* the positions that are not skipped by the time filter and carry a code
Hits == {k \in DOMAIN Msgs : ~Skipped(Msgs[k], Since) /\ Coded(k)}

\* C4: for an array of messages received with status 200,
\* fetch_verification_code returns the code of the first message, in the
\* order of the array, that the time filter does not skip and that carries a
\* code; no message after it is scanned; and it returns None when there is no
\* such message.
C4_FirstMatchWins ==
    (Finished("fetch_verification_code") /\ IsMessageArray)
    => IF Hits = {}
       THEN ret = Return(None)
       ELSE LET first == CHOOSE k \in Hits : \A h \in Hits : k <= h
            IN /\ ret = Return(CodeOf(first))
               /\ \A k \in Scanned : k <= first
               /\ first \in Scanned

\* the first message has no code, the second has one: the second's is returned
C4_Witness ==
    /\ Finished("fetch_verification_code")
    /\ resp = Http(200, JsonBody(List(<<Message(1, FALSE), Message(2, TRUE)>>)))
    /\ ret = Return(CodeOf(2))
    /\ Scanned = {1, 2}

----------------------------------------------------------------------------
(* C5 *)

\* created_at is the epoch number or the ISO-8601 string of an instant
HasInstant(k) ==
    /\ HasField(Msgs[k], "created_at")
    /\ \E n \in 0..MaxTime : Msgs[k].v["created_at"] \in {Num(n), IsoZ(n)}
InstantOf(k) == CHOOSE n \in 0..MaxTime : Msgs[k].v["created_at"] \in {Num(n), IsoZ(n)}

\* the scan ended at a message before position k
EndedBefore(k) == \E j \in 1..(k - 1) : ret = Return(CodeOf(j))

\* C5: with since_time the local datetime of instant T, every message whose
\* created_at names an instant before T, as an epoch number or as an ISO-8601
\* string, is skipped and never gives the returned code, and every message
\* whose created_at names T or a later instant is scanned unless the scan
\* ended before it.
C5_TimeFilter ==
    (/\ Finished("fetch_verification_code")
     /\ IsMessageArray
     /\ Since.t = "datetime")
    => \A k \in DOMAIN Msgs :
          HasInstant(k) =>
             IF InstantOf(k) < Since.v - TzOffset
             THEN k \notin Scanned /\ ret # Return(CodeOf(k))
             ELSE k \in Scanned \/ EndedBefore(k)

----------------------------------------------------------------------------
(* C6 *)

PollTimeoutArg == call.args[1]
PollIntervalArg == call.args[2]

\* the calls of fetch_verification_code and of time.sleep, in order
PollEvents == SelectSeq(trace, LAMBDA x : x.ev \in {"fetch", "sleep"})

\* n is floor(timeout / interval)
IsFloor(n, timeout, interval) == n * interval <= timeout /\ timeout < (n + 1) * interval

\* C6: when every round's fetch_verification_code returns None (so the last
\* one did), poll_for_code(timeout, interval) with
\* interval > 0 has called fetch_verification_code floor(timeout / interval)
\* times and has slept for interval seconds exactly once between consecutive
\* calls, without a sleep after the last call, and returns None.
C6_PollAttempts ==
    (/\ Finished("poll_for_code")
     /\ PollIntervalArg > 0
     /\ ret.kind = "return"
     /\ poll.code \in {None, EmptyStr})
    => /\ ret = Return(None)
       /\ IsFloor(Len(Fetches), PollTimeoutArg, PollIntervalArg)
       /\ Len(Sleeps) = IF Len(Fetches) = 0 THEN 0 ELSE Len(Fetches) - 1
       /\ \A i \in DOMAIN PollEvents :
             IF i % 2 = 1
             THEN PollEvents[i].ev = "fetch"
             ELSE PollEvents[i] = SleepEv(PollIntervalArg)
       /\ Len(PollEvents) % 2 = (IF Len(Fetches) = 0 THEN 0 ELSE 1)

\* poll_for_code(3, 1) has ended after three requests, none giving a code
C6_Witness ==
    /\ Finished("poll_for_code")
    /\ PollTimeoutArg = 3 /\ PollIntervalArg = 1
    /\ ret = Return(None)
    /\ Len(Requests) = 3
    /\ Len(Sleeps) = 2

----------------------------------------------------------------------------
(* C7 *)

\* C7: once a round's fetch_verification_code has returned a code that is not
\* None or "", the next step of poll_for_code returns that code, with no
\* further call, sleep or log entry; and a poll that returned a code has its
\* last event be the call that found it.
C7_ReturnsAtFirstCode ==
    /\ [][(pc = "poll_fetched" /\ poll.code \notin {None, EmptyStr})
            => /\ pc' = "done"
               /\ ret' = Return(poll.code)
               /\ trace' = trace
               /\ log' = log]_vars
    /\ []((Finished("poll_for_code") /\ ret.kind = "return" /\ ret.val # None)
            => /\ ret.val = poll.code
               /\ ret.val # EmptyStr
               /\ trace[Len(trace)].ev = "extract"
               /\ \A i \in DOMAIN log : log[i].msg # "Verification code timeout")

\* poll_for_code has returned the code found in its second round
C7_Witness ==
    /\ Finished("poll_for_code")
    /\ ret = Return(CodeOf(1))
    /\ Len(Fetches) = 2
    /\ Len(Sleeps) = 1

----------------------------------------------------------------------------
(* C8 *)

IsArrayBody(b) == b.raw = "json" /\ b.json.t = "list"

\* C8 as stated: when the 200 reply to list-messages is not a JSON array of
\* message objects, fetch_verification_code returns None and does not raise,
\* and for a body that is not an array the extractor is not called.
C8_AsStated ==
    (/\ Finished("fetch_verification_code")
     /\ Replied({200})
     /\ ~IsMessageArray)
    => /\ ret = Return(None)
       /\ ~IsArrayBody(resp.body) => Extracts = <<>>

\* the position of the first element of the array that is not an object
FirstNonObject == CHOOSE k \in DOMAIN Msgs : Msgs[k].t # "dict" /\ \A h \in 1..(k - 1) : Msgs[h].t = "dict"

\* the coded, unskipped messages before the first non-object element
HitsBeforeNonObject ==
    {k \in 1..(FirstNonObject - 1) : ~Skipped(Msgs[k], Since) /\ Coded(k)}

\* C8, amended: when the 200 reply to list-messages is not a JSON array of
\* message objects, fetch_verification_code does not raise; it returns None
\* and calls the extractor for nothing when the body is not an array (a JSON
\* object, null, a scalar, unparseable text); and when the body is an array
\* with an element that is not an object, it returns None unless a message
\* before the first such element gives a code, which is then returned.
C8_MalformedList ==
    (/\ Finished("fetch_verification_code")
     /\ Replied({200})
     /\ ~IsMessageArray)
    => /\ ret.kind = "return"
       /\ ~IsArrayBody(resp.body) => ret = Return(None) /\ Extracts = <<>>
       /\ IsArrayBody(resp.body) =>
             /\ \A k \in Scanned : k < FirstNonObject
             /\ IF HitsBeforeNonObject = {}
                THEN ret = Return(None)
                ELSE \E k \in HitsBeforeNonObject :
                        /\ \A h \in HitsBeforeNonObject : k <= h
                        /\ ret = Return(CodeOf(k))

\* an array whose first element is a number and whose second is a message with
\* a code has given None
C8_Witness ==
    /\ Finished("fetch_verification_code")
    /\ resp = Http(200, JsonBody(List(<<Num(7), Message(2, TRUE)>>)))
    /\ ret = Return(None)
    /\ Extracts = <<>>

----------------------------------------------------------------------------
(* C9 *)

\* C9: every operation other than the request wrapper ends by returning a
\* value; none raises to its caller.
C9_NeverRaises == (pc = "done" /\ call.op # "_request") => ret.kind = "return"

----------------------------------------------------------------------------
(* C10 *)

\* C10: login can be called whenever the client is idle; it returns True,
\* sends no request, writes no log entry and leaves the stored mailbox address
\* and the configuration as they were.
C10_LoginNoOp ==
    /\ [](pc = "idle" => ENABLED LoginCall)
    /\ [][(pc = "idle" /\ call'.op = "login")
            => /\ ret' = Return(Bool(TRUE))
               /\ trace' = <<>>
               /\ log' = <<>>
               /\ email' = email
               /\ cfg' = cfg]_vars

\* login has returned on a client with a stored mailbox and a logging sink
C10_Witness ==
    /\ Finished("login")
    /\ ret = Return(Bool(TRUE))
    /\ email = AddrA
    /\ cfg.log_callback = "ok"

----------------------------------------------------------------------------
(* C11 *)

HasSink == cfg.log_callback # "none"

\* the log holds an entry of that level and message
Logged(level, msg) == \E i \in DOMAIN log : log[i].level = level /\ log[i].msg = msg
TimesLogged(msg) == Cardinality({i \in DOMAIN log : log[i].msg = msg})

AuthMessages ==
    {"Freemail authentication failed (invalid JWT token)", "Freemail authentication failed"}
GenericMessages ==
    {"Freemail generate failed", "Freemail fetch emails failed",
     "Freemail register failed", "Fetch verification code failed",
     "Freemail response missing email field", "Freemail response is not a list"}

\* the authentication-failure message of the operation
AuthMessageOf(op) ==
    IF op = "register_account"
    THEN "Freemail authentication failed (invalid JWT token)"
    ELSE "Freemail authentication failed"

\* C11: in register_account and in fetch_verification_code a 401 or 403 reply
\* writes the operation's authentication-failure entry, as an error, and none
\* of the other failure entries; a reply of any other status or body and a
\* transport failure write no authentication-failure entry.
C11_AuthFailureDistinct ==
    (Finished("register_account") \/ Finished("fetch_verification_code"))
    => IF Replied({401, 403})
       THEN /\ HasSink => Logged("error", AuthMessageOf(call.op))
            /\ \A i \in DOMAIN log : log[i].msg \notin GenericMessages
            /\ ret.kind = "return" /\ ~Truthy(ret.val)
       ELSE \A i \in DOMAIN log : log[i].msg \notin AuthMessages

\* fetch_verification_code has logged the authentication failure of a 403
C11_Witness ==
    /\ Finished("fetch_verification_code")
    /\ Replied({403})
    /\ Logged("error", "Freemail authentication failed")
    /\ ret = Return(None)

----------------------------------------------------------------------------
(* C12 *)

\* C12: with a logging sink, poll_for_code has written the timeout entry once
\* when it has returned None, also after zero rounds, and has not written it
\* while it runs, when it returns a code or when it raises.
C12_TimeoutLogged ==
    call.op = "poll_for_code"
    => /\ TimesLogged("Verification code timeout")
            = (IF HasSink /\ pc = "done" /\ ret = Return(None) THEN 1 ELSE 0)
       /\ \A i \in DOMAIN log :
             log[i].msg = "Verification code timeout" => log[i].level = "error" /\ i = Len(log)

\* poll_for_code(1, 2) has made no round and has logged the timeout
C12_Witness ==
    /\ Finished("poll_for_code")
    /\ PollTimeoutArg = 1 /\ PollIntervalArg = 2
    /\ Fetches = <<>>
    /\ ret = Return(None)
    /\ log = <<Entry("error", "Verification code timeout", <<>>)>>

----------------------------------------------------------------------------
(* C13 *)

\* created_at is missing, null or empty, or a string that is neither a number
\* nor an ISO-8601 time
Undated(k) ==
    \/ ~HasField(Msgs[k], "created_at")
    \/ Msgs[k].v["created_at"] \in {None, EmptyStr, Str(<<"yesterday">>)}

\* no message before position k carries a code that the time filter lets through
NoHitBefore(k) == \A j \in 1..(k - 1) : j \notin Hits

\* C13: with since_time given, a message without a usable created_at is given
\* to the extractor unless the scan ended at a message before it, its code is
\* returned when no earlier message gave one, the call does not raise, and the
\* messages after it that the filter keeps are scanned as long as no code has
\* been found.
C13_UndatedIsScanned ==
    (/\ Finished("fetch_verification_code")
     /\ IsMessageArray
     /\ Since.t = "datetime")
    => /\ ret.kind = "return"
       /\ \A k \in DOMAIN Msgs :
             Undated(k) =>
                /\ k \in Scanned \/ EndedBefore(k)
                /\ (Coded(k) /\ ~EndedBefore(k)) => ret = Return(CodeOf(k))
                /\ \A j \in DOMAIN Msgs :
                      (j > k /\ ~Skipped(Msgs[j], Since) /\ NoHitBefore(j))
                      => j \in Scanned

\* the first message has an unparseable created_at and no code, the second has
\* an empty created_at and a code: both are scanned, the second's is returned
C13_Witness ==
    /\ Finished("fetch_verification_code")
    /\ Since = SinceOf(MaxTime)
    /\ resp = Http(200, JsonBody(List(<<MessageAt(1, FALSE, Str(<<"yesterday">>)),
                                        MessageAt(2, TRUE, EmptyStr)>>)))
    /\ Scanned = {1, 2}
    /\ ret = Return(CodeOf(2))

----------------------------------------------------------------------------
(* C14 *)

\* the wrapper's entry for a failed request is the last entry of the log
FailureLoggedLast ==
    /\ log # <<>>
    /\ log[Len(log)] = Entry("error", "[HTTP] Request failed", <<"ConnectionError">>)

\* C14: when the transport fails, _request raises the transport's exception
\* to its caller and, with a log sink, its last log entry is the error entry
\* of the failed request; when the transport answers, whatever the status,
\* _request returns that response, does not raise and logs no failed request.
\* In both cases exactly one request was issued.
C14_WrapperRaisesOrReturns ==
    Finished("_request")
    => /\ Len(Requests) = 1
       /\ IF resp.kind = "error"
          THEN /\ ret = Raise("ConnectionError")
               /\ HasSink => FailureLoggedLast
          ELSE /\ ret = Return(Response(resp))
               /\ TimesLogged("[HTTP] Request failed") = 0

\* the transport failed: the wrapper has logged the failure and raised
C14_Witness ==
    /\ Finished("_request")
    /\ resp = TransportError
    /\ ret = Raise("ConnectionError")
    /\ FailureLoggedLast

----------------------------------------------------------------------------
(* C15 *)

\* what a caller and the network see of an outcome: the result, the stored
\* address, and the requests, extractor calls and sleeps
Visible(r, e) == [ret |-> r.ret, email |-> e, trace |-> r.trace]

\* the outcome of the finished call had the client been built with sink s
OutcomeWith(s) ==
    LET c == Config(s) IN
    CASE call.op = "register_account" ->
            LET r == RegisterAccount(c, call.email0, call.args[1], resp)
            IN Visible(r, r.email)
      [] call.op = "fetch_verification_code" ->
            Visible(FetchVerificationCode(c, call.email0, call.args[1], resp), call.email0)
      [] call.op = "_get_domain" ->
            Visible(GetDomain(c, resp), call.email0)
      [] call.op = "set_credentials" ->
            LET r == SetCredentials(c, call.email0, call.args[1], call.args[2])
            IN Visible(r, r.email)
      [] call.op = "login" ->
            LET r == Login(c, call.email0) IN Visible(r, r.email)
      [] OTHER -> Visible([ret |-> ret, trace |-> trace], email)

\* the result of a finished poll_for_code, from its arguments and the code of
\* its last round
PollResult ==
    IF DivisionRaises(PollTimeoutArg, PollIntervalArg) THEN Raise("ZeroDivisionError")
    ELSE IF CodeFound(poll.code) THEN Return(poll.code)
    ELSE Return(None)

\* the last events of the trace are those of tr
EndsWith(tr) ==
    /\ Len(tr) <= Len(trace)
    /\ SubSeq(trace, Len(trace) - Len(tr) + 1, Len(trace)) = tr

\* C15: whatever the log sink does (absent, returning, raising), a finished
\* call has the result, the stored address and the requests, extractor calls
\* and sleeps that it has with any other sink; in poll_for_code this holds of
\* every round's fetch and of the final result, which is a function of the
\* arguments and the last round's code only.
C15_SinkHasNoEffect ==
    /\ (pc = "done" /\ call.op \notin {"poll_for_code", "_request"})
       => \A s \in Sinks : Visible([ret |-> ret, trace |-> trace], email) = OutcomeWith(s)
    /\ Finished("_request")
       => ret = (IF resp.kind = "error" THEN Raise("ConnectionError")
                 ELSE Return(Response(resp)))
    /\ (call.op = "poll_for_code" /\ pc = "poll_fetched")
       => \A s \in Sinks :
             LET r == FetchVerificationCode(Config(s), email, call.args[3], resp)
             IN r.ret = Return(poll.code) /\ EndsWith(r.trace)
    /\ Finished("poll_for_code") => ret = PollResult /\ email = call.email0

\* with a sink that raises, register_account has logged, stored the address
\* and returned True
C15_Witness ==
    /\ cfg.log_callback = "raises"
    /\ Finished("register_account")
    /\ log # <<>>
    /\ ret = Return(Bool(TRUE))
    /\ email = AddrA /\ call.email0 # AddrA

----------------------------------------------------------------------------
(* C16 *)

\* C16: every request issued by fetch_verification_code or poll_for_code is a
\* GET of /api/emails whose parameters are the stored mailbox address, which
\* is the one stored when the call began, and the configured token.
C16_ListRequestParams ==
    call.op \in {"fetch_verification_code", "poll_for_code"}
    => /\ email = call.email0
       /\ \A i \in DOMAIN Requests :
             /\ Requests[i].method = "GET"
             /\ Requests[i].url = Url(cfg, "/api/emails")
             /\ Requests[i].params = [mailbox |-> email, admin_token |-> cfg.jwt_token]

\* poll_for_code has issued two requests for the second address
C16_Witness ==
    /\ Finished("poll_for_code")
    /\ email = AddrB
    /\ Len(Requests) = 2
    /\ Requests[2].params = [mailbox |-> AddrB, admin_token |-> Token]

----------------------------------------------------------------------------
(* C17 *)

\* the stored address is a non-empty value of field email or mailbox of the reply
IsAddressOfReply ==
    /\ IsObjectBody(resp.body)
    /\ \E f \in {"email", "mailbox"} :
          /\ HasField(resp.body.json, f)
          /\ resp.body.json.v[f] = email
    /\ Truthy(email)

\* C17: a step changes the stored address only when it is a set_credentials
\* call or a register_account call that returns True; set_credentials stores
\* its first argument whatever the second; a register_account that returns
\* True stores an address of the reply and one that returns anything else
\* stores nothing; fetch_verification_code, poll_for_code, login, _get_domain
\* and _request leave the address as it was when they were called.
C17_AddressFrame ==
    /\ [][email' # email
          => /\ pc = "idle" /\ pc' = "done"
             /\ \/ call'.op = "set_credentials"
                \/ call'.op = "register_account" /\ ret' = Return(Bool(TRUE))]_vars
    /\ [](Finished("set_credentials") => email = call.args[1])
    /\ [](Finished("register_account")
          => IF ret = Return(Bool(TRUE)) THEN IsAddressOfReply ELSE email = call.email0)
    /\ [](call.op \in {"fetch_verification_code", "poll_for_code", "login",
                       "_get_domain", "_request"}
          => email = call.email0)

\* set_credentials with a password has replaced the first address by the second
C17_Witness ==
    /\ Finished("set_credentials")
    /\ call.email0 = AddrA
    /\ call.args[1] = AddrB /\ Truthy(call.args[2])
    /\ email = AddrB

----------------------------------------------------------------------------
(* C18 *)

\* every request of the trace follows a fetch of its own: a round has issued
\* at most one request and has ended before the next round begins
OneRequestPerFetch ==
    \A j \in DOMAIN trace :
       trace[j].ev = "request"
       => \E k \in 1..(j - 1) :
             /\ trace[k].ev = "fetch"
             /\ \A i \in (k + 1)..(j - 1) : trace[i].ev \notin {"request", "fetch"}

\* C18: a poll_for_code with interval > 0 makes at most
\* floor(timeout / interval) rounds, each with at most one request, one round
\* after the other; with floor(timeout / interval) = 0 it ends having issued
\* no request and returns None; and every such call that has begun ends.
C18_PollTerminates ==
    /\ []((call.op = "poll_for_code" /\ PollIntervalArg > 0)
          => /\ \E n \in 0..Len(Fetches) + MaxTimeout :
                   /\ IsFloor(n, PollTimeoutArg, PollIntervalArg)
                   /\ Len(Fetches) <= n
                   /\ (n = 0 /\ pc = "done") => (trace = <<>> /\ ret = Return(None))
             /\ Len(Requests) <= Len(Fetches)
             /\ OneRequestPerFetch)
    /\ (call.op = "poll_for_code" /\ PollIntervalArg > 0) ~> (pc = "done")

\* for a stored address, poll_for_code(1, 2) has ended without any request
C18_Witness ==
    /\ Finished("poll_for_code")
    /\ PollTimeoutArg = 1 /\ PollIntervalArg = 2
    /\ email = AddrA
    /\ Requests = <<>>
    /\ ret = Return(None)

----------------------------------------------------------------------------
(* C19 *)

\* the reply to register_account is a 200/201 object with both address fields
HasBothFields ==
    /\ Replied({200, 201})
    /\ IsObjectBody(resp.body)
    /\ HasField(resp.body.json, "email")
    /\ HasField(resp.body.json, "mailbox")

\* C19 as stated: when the 200/201 body carries both fields, the stored
\* address is the value of email.
C19_AsStated ==
    (Finished("register_account") /\ HasBothFields)
    => email = resp.body.json.v["email"]

\* C19, amended: when the 200/201 body carries both fields, the first of
\* email, mailbox whose value is not null or "" is stored and True is
\* returned: the value of email whenever it is non-empty, whatever mailbox
\* holds, and the value of mailbox when email is null or "". When both are
\* empty nothing is stored and False is returned.
C19_FirstNonEmptyWins ==
    (Finished("register_account") /\ HasBothFields)
    => LET o == resp.body.json IN
       IF HasValue(o, "email")
       THEN email = o.v["email"] /\ ret = Return(Bool(TRUE))
       ELSE IF HasValue(o, "mailbox")
       THEN email = o.v["mailbox"] /\ ret = Return(Bool(TRUE))
       ELSE email = call.email0 /\ ret = Return(Bool(FALSE))

\* both fields carry an address: the one of email has replaced the stored one
C19_Witness ==
    /\ Finished("register_account")
    /\ resp = Http(200, JsonBody(Dict([email |-> AddrA, mailbox |-> AddrB])))
    /\ call.email0 = AddrB
    /\ email = AddrA

----------------------------------------------------------------------------
(* C20 *)

\* the reply to _get_domain is a 200 with a non-empty JSON array
IsDomainList ==
    /\ Replied({200})
    /\ resp.body.raw = "json"
    /\ resp.body.json.t = "list"
    /\ Len(resp.body.json.v) > 0

\* C20: _get_domain returns the first element of the array of a 200 reply
\* whose body is a non-empty JSON array, and "" for every other reply and for
\* a transport failure; it never raises and leaves the stored address as it
\* was.
C20_FirstDomainOrEmpty ==
    Finished("_get_domain")
    => /\ ret = Return(IF IsDomainList THEN resp.body.json.v[1] ELSE EmptyStr)
       /\ email = call.email0

\* a 200 reply with two domains has given the first, the address being kept
C20_Witness ==
    /\ Finished("_get_domain")
    /\ resp = Http(200, JsonBody(List(<<Str(<<"x.com">>), Str(<<"y.org">>)>>)))
    /\ ret = Return(Str(<<"x.com">>))
    /\ email = AddrA

====
